---- MODULE Spec2Model ----
(***************************************************************************)
(* Model of the MinerU document-extraction action                          *)
(* (packages/pieces/custom/mineru/src/lib/actions/                         *)
(*  document-data-extraction-with-mineru.ts, getDocumentContent).          *)
(*                                                                         *)
(* An invocation of run() is a small state machine: the synchronous        *)
(* prefix builds the multipart form and issues the POST, the invocation    *)
(* is then suspended at `await httpClient.sendRequest`, and the            *)
(* continuation decides the outcome from the response.  The default path   *)
(* has a second suspension, `return await response.body`.                  *)
(*                                                                         *)
(* JavaScript `undefined` is modelled as the empty tuple <<>> and a given  *)
(* value v as the one-element tuple <<v>>.                                 *)
(***************************************************************************)
EXTENDS Integers, Sequences, FiniteSets, TLC

VARIABLES
    pc,        \* per invocation: "idle", "awaitResponse", "awaitBody", "returned", "threw"
    props,     \* per invocation: context.propsValue, <<>> before the invocation starts
    frame,     \* per invocation scope: the local variables of run()
    requests,  \* per invocation: the requests handed to httpClient.sendRequest, in order
    response,  \* per invocation: what sendRequest resolved with, <<>> if nothing yet
    outcome    \* per invocation: the returned value or the thrown error, <<>> if none yet

vars == <<pc, props, frame, requests, response, outcome>>

----------------------------------------------------------------------------
(* Bounds of the model.                                                    *)

\* At most this many of the optional inputs are given in one invocation.
MaxGiven == 2
\* The longest binary response body, in bytes.
MaxBodyLen == 3
\* The number of concurrent invocations of SpecConc.
NumInvocations == 2

----------------------------------------------------------------------------
(* JavaScript values.                                                      *)

Undefined == <<>>

Some(v) == <<v>>

\* Truthiness of an optional string: undefined and "" are falsy.
TruthyString(x) == x # Undefined /\ x[1] # ""

\* Truthiness of an optional number: undefined and 0 are falsy.
TruthyNumber(x) == x # Undefined /\ x[1] # 0

\* Truthiness of an optional boolean: undefined and false are falsy.
TruthyBoolean(x) == x # Undefined /\ x[1]

Digits == <<"0", "1", "2", "3", "4", "5", "6", "7", "8", "9">>

RECURSIVE NatToString(_)
NatToString(n) ==
    IF n < 10 THEN Digits[n + 1]
    ELSE NatToString(n \div 10) \o Digits[(n % 10) + 1]

\* String(n) for an integer n.
NumberToString(n) == IF n < 0 THEN "-" \o NatToString(0 - n) ELSE NatToString(n)

Base64Alphabet ==
    << "A", "B", "C", "D", "E", "F", "G", "H", "I", "J", "K", "L", "M",
       "N", "O", "P", "Q", "R", "S", "T", "U", "V", "W", "X", "Y", "Z",
       "a", "b", "c", "d", "e", "f", "g", "h", "i", "j", "k", "l", "m",
       "n", "o", "p", "q", "r", "s", "t", "u", "v", "w", "x", "y", "z",
       "0", "1", "2", "3", "4", "5", "6", "7", "8", "9", "+", "/" >>

Sextet(n) == Base64Alphabet[n + 1]

\* Buffer.from(bytes).toString('base64'): three bytes to four characters,
\* the last group padded with "=".
RECURSIVE Base64(_)
Base64(b) ==
    IF Len(b) = 0 THEN ""
    ELSE IF Len(b) = 1 THEN
        Sextet(b[1] \div 4) \o Sextet((b[1] % 4) * 16) \o "=="
    ELSE IF Len(b) = 2 THEN
        Sextet(b[1] \div 4) \o Sextet((b[1] % 4) * 16 + b[2] \div 16)
            \o Sextet((b[2] % 16) * 4) \o "="
    ELSE
        Sextet(b[1] \div 4) \o Sextet((b[1] % 4) * 16 + b[2] \div 16)
            \o Sextet((b[2] % 16) * 4 + b[3] \div 64) \o Sextet(b[3] % 64)
            \o Base64(SubSeq(b, 4, Len(b)))

\* A response body: a Buffer, a Uint8Array or an ArrayBuffer over `bytes`, a
\* string `str`, a JSON object with the string-valued members `members`, or
\* undefined.
Body(type, bytes, str, members) ==
    [type |-> type, bytes |-> bytes, str |-> str, members |-> members]

\* zipData instanceof Buffer || zipData instanceof Uint8Array
IsBinary(body) == body.type \in {"Buffer", "Uint8Array"}

RECURSIVE JoinNumbers(_)
JoinNumbers(b) ==
    IF Len(b) = 0 THEN ""
    ELSE IF Len(b) = 1 THEN NatToString(b[1])
    ELSE NatToString(b[1]) \o "," \o JoinNumbers(Tail(b))

RECURSIVE JoinIndexed(_, _)
JoinIndexed(b, k) ==
    IF Len(b) = 0 THEN ""
    ELSE "\"" \o NatToString(k) \o "\":" \o NatToString(b[1])
           \o (IF Len(b) = 1 THEN "" ELSE "," \o JoinIndexed(Tail(b), k + 1))

RECURSIVE JoinMembers(_)
JoinMembers(m) ==
    IF Len(m) = 0 THEN ""
    ELSE "\"" \o m[1][1] \o "\":\"" \o m[1][2] \o "\""
           \o (IF Len(m) = 1 THEN "" ELSE "," \o JoinMembers(Tail(m)))

\* JSON.stringify(body) as it appears inside a template literal.
JSONStringify(body) ==
    CASE body.type = "Buffer" ->
            "{\"type\":\"Buffer\",\"data\":[" \o JoinNumbers(body.bytes) \o "]}"
      [] body.type = "Uint8Array" -> "{" \o JoinIndexed(body.bytes, 0) \o "}"
      [] body.type = "ArrayBuffer" -> "{}"
      [] body.type = "string" -> "\"" \o body.str \o "\""
      [] body.type = "object" -> "{" \o JoinMembers(body.members) \o "}"
      [] OTHER -> "undefined"

----------------------------------------------------------------------------
(* The synchronous prefix of run(): the form and the request.              *)

\* mime.lookup(extension): the type of a known extension, whatever its case,
\* and false (here Undefined) otherwise.
MimeLookup(extension) ==
    CASE extension \in {"pdf", "PDF"} -> Some("application/pdf")
      [] extension \in {"png"} -> Some("image/png")
      [] OTHER -> Undefined

OctetStream == "application/octet-stream"

\* Faulty variant: the extension is never looked up.
OctetStreamAlways(file) == OctetStream

\* const mimeType = file.extension ? mime.lookup(file.extension) || octet : octet
MimeType(file) ==
    IF TruthyString(file.extension)
    THEN IF MimeLookup(file.extension[1]) # Undefined
         THEN MimeLookup(file.extension[1])[1]
         ELSE OctetStream
    ELSE OctetStream

\* A string field of the form.
Field(name, value) == [name |-> name, value |-> value]

\* new Blob([file.data], {type: mimeType}); form.append('files', blob, file.filename)
FilesPart(file, mimeType) ==
    [name |-> "files", filename |-> file.filename, type |-> mimeType,
     bytes |-> file.data]

OptionalString(name, x) == IF TruthyString(x) THEN <<Field(name, x[1])>> ELSE <<>>

\* Faulty variant: tests x !== undefined instead of truthiness.
OptionalNumberDefined(name, x) ==
    IF x # Undefined THEN <<Field(name, NumberToString(x[1]))>> ELSE <<>>

\* if (startPageId) form.append('start_page_id', String(startPageId))
OptionalNumber(name, x) ==
    IF TruthyNumber(x) THEN <<Field(name, NumberToString(x[1]))>> ELSE <<>>

\* Faulty variant: the two branches of the conditional swapped.
FlagFieldInverted(name, x) == Field(name, IF TruthyBoolean(x) THEN "false" ELSE "true")

\* form.append('formula_enable', formulaEnable ? 'true' : 'false')
FlagField(name, x) == Field(name, IF TruthyBoolean(x) THEN "true" ELSE "false")

\* The form as it stands when sendRequest is called.
BuildForm(p, mimeType) ==
    <<FilesPart(p.file, mimeType)>>
        \o OptionalString("lang_list", p.langList)
        \o OptionalString("backend", p.backend)
        \o OptionalString("parse_method", p.parseMethod)
        \o OptionalString("server_url", p.backendServerUrl)
        \o OptionalNumber("start_page_id", p.startPageId)
        \o OptionalNumber("end_page_id", p.endPageId)
        \o << FlagField("formula_enable", p.formulaEnable),
              FlagField("table_enable", p.tableEnable),
              FlagField("return_md", p.returnMD),
              FlagField("return_middle_json", p.returnMiddleJson),
              FlagField("return_model_output", p.returnModelOutput),
              FlagField("return_content_list", p.returnContentList),
              FlagField("return_images", p.returnImages),
              FlagField("response_format_zip", p.responseFormatZip) >>

\* The argument of httpClient.sendRequest.
Request(apiServerUrl, form) ==
    [url |-> apiServerUrl \o "/file_parse", method |-> "POST",
     contentType |-> "multipart/form-data", body |-> form]

----------------------------------------------------------------------------
(* The continuation of run(): the outcome.                                 *)

Return(value) == [kind |-> "return", value |-> value]

Throw(message) == [kind |-> "throw", message |-> message]

UpstreamStatusMessage(r) ==
    "MinerU API request failed with status " \o NumberToString(r.status)
        \o ": " \o JSONStringify(r.body)

FormatMismatchMessage == "Expected ZIP file response but received non-binary data."

\* Faulty variant: the file name is not carried into the result.
ZipResultBareName(file, zipData) ==
    [filename |-> "mineru_result.zip", data |-> Base64(zipData.bytes),
     extension |-> "zip"]

\* {filename: `${file.filename}_mineru_result.zip`, data: base64, extension: 'zip'}
ZipResult(file, zipData) ==
    [filename |-> file.filename \o "_mineru_result.zip",
     data |-> Base64(zipData.bytes), extension |-> "zip"]

\* if (response.status >= 300)
StatusFails(status) == status >= 300

\* Faulty variant: the ZIP branch is chosen by the body, not by the flag.
ZipRequestedByContent(v, r) == IsBinary(r.body)

\* if (responseFormatZip)
ZipRequested(v, r) == TruthyBoolean(v.responseFormatZip)

\* Faulty variant: the ZIP mismatch is tested before the status.
ZipFirst(v, r) ==
    IF ZipRequested(v, r) /\ ~IsBinary(r.body) THEN Throw(FormatMismatchMessage)
    ELSE IF StatusFails(r.status) THEN Throw(UpstreamStatusMessage(r))
    ELSE IF ZipRequested(v, r) THEN Return(ZipResult(v.file, r.body))
    ELSE Undefined

\* What the continuation decides right after the response arrives: an
\* outcome, or Undefined when it goes on to `return await response.body`.
Decide(v, r) ==
    IF StatusFails(r.status) THEN Throw(UpstreamStatusMessage(r))
    ELSE IF ZipRequested(v, r)
         THEN IF IsBinary(r.body)
              THEN Return(ZipResult(v.file, r.body))
              ELSE Throw(FormatMismatchMessage)
         ELSE Undefined

----------------------------------------------------------------------------
(* Scopes.                                                                 *)

\* Faulty variant: the locals hoisted to module level, one scope for all calls.
FrameShared(i) == 1

\* Every invocation of run() has its own scope: its destructured inputs,
\* mimeType and form are locals of the call.
Frame(i) == i

Locals(i) == frame[Frame(i)][1]

----------------------------------------------------------------------------
(* Inputs.                                                                 *)

FlagNames ==
    {"formulaEnable", "tableEnable", "returnMD", "returnMiddleJson",
     "returnModelOutput", "returnContentList", "returnImages", "responseFormatZip"}

StringNames == {"langList", "backend", "backendServerUrl", "parseMethod"}

NumberNames == {"startPageId", "endPageId"}

OptionalNames == FlagNames \cup StringNames \cup NumberNames \cup {"extension"}

\* The values an optional input takes when it is given.
GivenValues(name) ==
    CASE name \in FlagNames -> {TRUE, FALSE}
      [] name = "langList" -> {"", "en"}
      [] name = "backend" -> {"pipeline", "vlm-http-client"}
      [] name = "backendServerUrl" -> {"", "http://127.0.0.1:30000"}
      [] name = "parseMethod" -> {"auto", "ocr"}
      [] name = "startPageId" -> {0, 7, 12}
      [] name = "endPageId" -> {0, 99999}
      [] name = "extension" -> {"", "pdf", "PDF", "xyz"}

\* The assignments of given values to exactly the names of S.
RECURSIVE Assignments(_)
Assignments(S) ==
    IF S = {} THEN {<<>>}
    ELSE LET n == CHOOSE x \in S : TRUE
         IN  { (n :> Some(v)) @@ rest :
                   v \in GivenValues(n), rest \in Assignments(S \ {n}) }

\* Every optional input, the ones g leaves out being undefined.
Optionals(g) ==
    [n \in OptionalNames |-> IF n \in DOMAIN g THEN g[n] ELSE Undefined]

OptionalInputs(max) ==
    UNION { { Optionals(g) : g \in Assignments(S) } :
                S \in { T \in SUBSET OptionalNames : Cardinality(T) <= max } }

\* The required inputs: the server URL and the file's name and content.
RequiredInputs ==
    { [apiServerUrl |-> "http://h", filename |-> "a.pdf", data |-> <<37, 80, 68, 70>>],
      [apiServerUrl |-> "http://h:8000/", filename |-> "scan", data |-> <<>>] }

PropsValue(req, o) ==
    [apiServerUrl |-> req.apiServerUrl,
     file |-> [filename |-> req.filename, extension |-> o.extension, data |-> req.data],
     langList |-> o.langList, backend |-> o.backend,
     backendServerUrl |-> o.backendServerUrl, parseMethod |-> o.parseMethod,
     formulaEnable |-> o.formulaEnable, tableEnable |-> o.tableEnable,
     returnMD |-> o.returnMD, returnMiddleJson |-> o.returnMiddleJson,
     returnModelOutput |-> o.returnModelOutput,
     returnContentList |-> o.returnContentList, returnImages |-> o.returnImages,
     responseFormatZip |-> o.responseFormatZip,
     startPageId |-> o.startPageId, endPageId |-> o.endPageId]

PropsValues == { PropsValue(req, o) : req \in RequiredInputs, o \in OptionalInputs(MaxGiven) }

SampleBytes == <<80, 75, 3, 4, 255, 0, 128, 63>>

BinaryBodies ==
    { Body(t, SubSeq(SampleBytes, 1, k), "", <<>>) :
          t \in {"Buffer", "Uint8Array"}, k \in 0..MaxBodyLen }

NonBinaryBodies ==
    { Body("ArrayBuffer", <<80, 75>>, "", <<>>),
      Body("string", <<>>, "Internal Server Error", <<>>),
      Body("object", <<>>, "", << <<"markdown", "# T">> >>),
      Body("undefined", <<>>, "", <<>>) }

Statuses == {200, 299, 300, 404}

Responses ==
    { [status |-> s, body |-> b] : s \in Statuses, b \in BinaryBodies \cup NonBinaryBodies }

TransportErrors == {"connect ECONNREFUSED"}

\* The inputs and responses of the concurrent runs.
ConcProps ==
    { PropsValue(req, Optionals(g)) :
          req \in RequiredInputs,
          g \in { <<>>, ("responseFormatZip" :> Some(TRUE)) @@ ("extension" :> Some("pdf")) } }

ConcResponses ==
    { [status |-> 200, body |-> Body("Buffer", <<80, 75, 3>>, "", <<>>)],
      [status |-> 200, body |-> Body("object", <<>>, "", << <<"markdown", "# T">> >>)],
      [status |-> 404, body |-> Body("string", <<>>, "Not Found", <<>>)] }

----------------------------------------------------------------------------
(* The state machine.                                                      *)

InitOver(I) ==
    /\ pc = [i \in I |-> "idle"]
    /\ props = [i \in I |-> Undefined]
    /\ frame = [i \in I |-> Undefined]
    /\ requests = [i \in I |-> <<>>]
    /\ response = [i \in I |-> Undefined]
    /\ outcome = [i \in I |-> Undefined]

\* run(context) up to the first await, with one of the inputs P: destructure
\* the inputs, resolve the MIME type, build the form and hand the request to
\* the HTTP client.
Invoke(i, P) ==
    /\ pc[i] = "idle"
    /\ \E p \in P :
        LET mimeType == MimeType(p.file)
            form == BuildForm(p, mimeType)
        IN  /\ frame' = [frame EXCEPT ![Frame(i)] =
                             Some([v |-> p, mimeType |-> mimeType, form |-> form])]
            /\ requests' = [requests EXCEPT ![i] =
                                Append(@, Request(p.apiServerUrl, form))]
            /\ props' = [props EXCEPT ![i] = Some(p)]
    /\ pc' = [pc EXCEPT ![i] = "awaitResponse"]
    /\ UNCHANGED <<response, outcome>>

\* sendRequest resolves with one of the responses R: the status check and
\* the ZIP branch.
Resolve(i, R) ==
    /\ pc[i] = "awaitResponse"
    /\ \E r \in R :
        /\ response' = [response EXCEPT ![i] = Some(r)]
        /\ LET d == Decide(Locals(i).v, r)
           IN  IF d = Undefined
               THEN /\ pc' = [pc EXCEPT ![i] = "awaitBody"]
                    /\ UNCHANGED outcome
               ELSE /\ pc' = [pc EXCEPT ![i] =
                                  IF d.kind = "return" THEN "returned" ELSE "threw"]
                    /\ outcome' = [outcome EXCEPT ![i] = Some(d)]
    /\ UNCHANGED <<props, frame, requests>>

\* Faulty variant: a rejection is caught and the request sent once more.
RejectRetry(i, E) ==
    /\ pc[i] = "awaitResponse"
    /\ requests' = [requests EXCEPT ![i] = Append(@, @[1])]
    /\ IF Len(requests[i]) < 2
       THEN UNCHANGED <<pc, outcome>>
       ELSE \E e \in E :
                /\ pc' = [pc EXCEPT ![i] = "threw"]
                /\ outcome' = [outcome EXCEPT ![i] = Some(Throw(e))]
    /\ UNCHANGED <<props, frame, response>>

\* sendRequest rejects with one of the errors E: nothing catches it, run()
\* rejects with it.
Reject(i, E) ==
    /\ pc[i] = "awaitResponse"
    /\ \E e \in E :
        /\ pc' = [pc EXCEPT ![i] = "threw"]
        /\ outcome' = [outcome EXCEPT ![i] = Some(Throw(e))]
    /\ UNCHANGED <<props, frame, requests, response>>

\* return await response.body
ReturnBody(i) ==
    /\ pc[i] = "awaitBody"
    /\ pc' = [pc EXCEPT ![i] = "returned"]
    /\ outcome' = [outcome EXCEPT ![i] = Some(Return(response[i][1].body))]
    /\ UNCHANGED <<props, frame, requests, response>>

\* One invocation, every input and every response.
Init == InitOver({1})

Next ==
    \/ Invoke(1, PropsValues)
    \/ Resolve(1, Responses)
    \/ Reject(1, TransportErrors)
    \/ ReturnBody(1)

Spec == Init /\ [][Next]_vars

\* Concurrent invocations, interleaved at their suspension points.
Invocations == 1..NumInvocations

InitConc == InitOver(Invocations)

NextConc ==
    \E i \in Invocations :
        \/ Invoke(i, ConcProps)
        \/ Resolve(i, ConcResponses)
        \/ Reject(i, TransportErrors)
        \/ ReturnBody(i)

SpecConc == InitConc /\ [][NextConc]_vars

----------------------------------------------------------------------------
(* The declared defaults of the optional inputs (props, defaultValue).     *)

DefaultedNames == (FlagNames \cup StringNames \cup NumberNames) \ {"backendServerUrl"}

DeclaredDefault(name) ==
    CASE name = "langList" -> ""
      [] name = "backend" -> "vlm-http-client"
      [] name = "parseMethod" -> "auto"
      [] name \in {"formulaEnable", "tableEnable", "returnMD"} -> TRUE
      [] name \in {"returnMiddleJson", "returnModelOutput", "returnContentList",
                   "returnImages", "responseFormatZip"} -> FALSE
      [] name = "startPageId" -> 0
      [] name = "endPageId" -> 99999

----------------------------------------------------------------------------
(* Vocabulary of the properties.                                           *)

Started(i) == pc[i] # "idle"

Responded(i) == response[i] # Undefined

Input(i) == props[i][1]

Sent(i) == requests[i][1]

Received(i) == response[i][1]

Named(form, name) == SelectSeq(form, LAMBDA e : e.name = name)

\* The form field of each boolean input.
FlagFieldName ==
    [formulaEnable |-> "formula_enable", tableEnable |-> "table_enable",
     returnMD |-> "return_md", returnMiddleJson |-> "return_middle_json",
     returnModelOutput |-> "return_model_output",
     returnContentList |-> "return_content_list", returnImages |-> "return_images",
     responseFormatZip |-> "response_format_zip"]

\* The form field of each conditional string input.
StringFieldName ==
    [langList |-> "lang_list", backend |-> "backend", parseMethod |-> "parse_method",
     backendServerUrl |-> "server_url"]

\* The form field of each page input.
NumberFieldName == [startPageId |-> "start_page_id", endPageId |-> "end_page_id"]

\* The decimal strings of the page numbers of the model.
Decimal == (7 :> "7") @@ (12 :> "12") @@ (99999 :> "99999")

----------------------------------------------------------------------------
(* C1: a response with status >= 300 makes the invocation fail with the    *)
(* upstream-status error carrying the status code and the JSON-stringified *)
(* body, whatever responseFormatZip and the body are: the status check     *)
(* comes before the ZIP branch, and nothing is returned.                   *)
C1_StatusErrorFirst ==
    \A i \in DOMAIN pc :
        (Responded(i) /\ Received(i).status >= 300) =>
            /\ pc[i] = "threw"
            /\ outcome[i] = Some(Throw("MinerU API request failed with status "
                                        \o NumberToString(Received(i).status) \o ": "
                                        \o JSONStringify(Received(i).body)))
            /\ outcome[i][1].message # FormatMismatchMessage
            /\ (Received(i).status = 404 /\ Received(i).body.type = "string") =>
                   outcome[i][1].message =
                       "MinerU API request failed with status 404: \"Internal Server Error\""
            /\ (Received(i).status = 300 /\ Received(i).body.type = "undefined") =>
                   outcome[i][1].message =
                       "MinerU API request failed with status 300: undefined"

C1_Witness ==
    \E i \in DOMAIN pc :
        /\ Responded(i) /\ Received(i).status = 300
        /\ Input(i).responseFormatZip = Some(TRUE)
        /\ ~IsBinary(Received(i).body)
        /\ pc[i] = "threw"

(* C2: with responseFormatZip true, a status below 300 and a binary body,  *)
(* run returns {filename: file.filename + "_mineru_result.zip", data: the  *)
(* base64 encoding of the body, extension: "zip"}.                         *)
C2_ZipRecord ==
    \A i \in DOMAIN pc :
        (/\ Responded(i) /\ Received(i).status < 300
         /\ Input(i).responseFormatZip = Some(TRUE)
         /\ Received(i).body.type \in {"Buffer", "Uint8Array"}) =>
            /\ pc[i] = "returned"
            /\ outcome[i] =
                   Some(Return([filename |-> Input(i).file.filename \o "_mineru_result.zip",
                                data |-> Base64(Received(i).body.bytes),
                                extension |-> "zip"]))
            /\ Input(i).file.filename = "a.pdf" =>
                   outcome[i][1].value.filename = "a.pdf_mineru_result.zip"
            /\ Received(i).body.bytes = <<>> => outcome[i][1].value.data = ""
            /\ Received(i).body.bytes = <<80>> => outcome[i][1].value.data = "UA=="
            /\ Received(i).body.bytes = <<80, 75>> => outcome[i][1].value.data = "UEs="
            /\ Received(i).body.bytes = <<80, 75, 3>> => outcome[i][1].value.data = "UEsD"

C2_Witness ==
    \E i \in DOMAIN pc :
        /\ Responded(i) /\ Received(i).status = 299
        /\ Input(i).responseFormatZip = Some(TRUE)
        /\ Received(i).body = Body("Uint8Array", <<80, 75, 3>>, "", <<>>)
        /\ pc[i] = "returned"

(* C3: with responseFormatZip true, a status below 300 and a body that is  *)
(* neither a Buffer nor a Uint8Array, run fails with 'Expected ZIP file    *)
(* response but received non-binary data.' and returns nothing.            *)
C3_FormatMismatch ==
    \A i \in DOMAIN pc :
        (/\ Responded(i) /\ Received(i).status < 300
         /\ Input(i).responseFormatZip = Some(TRUE)
         /\ Received(i).body.type \notin {"Buffer", "Uint8Array"}) =>
            /\ pc[i] = "threw"
            /\ outcome[i] =
                   Some(Throw("Expected ZIP file response but received non-binary data."))

C3_Witness ==
    \E i \in DOMAIN pc :
        /\ Responded(i) /\ Received(i).status = 200
        /\ Input(i).responseFormatZip = Some(TRUE)
        /\ Received(i).body.type = "object"
        /\ pc[i] = "threw"

(* C4: with responseFormatZip false or unset and a status below 300, run   *)
(* never fails and what it returns is the response body itself, binary or  *)
(* not: the flag alone chooses the shape of the output.                    *)
C4_RawBody ==
    \A i \in DOMAIN pc :
        (/\ Responded(i) /\ Received(i).status < 300
         /\ Input(i).responseFormatZip \in {Undefined, Some(FALSE)}) =>
            /\ pc[i] \in {"awaitBody", "returned"}
            /\ pc[i] = "awaitBody" => outcome[i] = Undefined
            /\ pc[i] = "returned" => outcome[i] = Some(Return(Received(i).body))

C4_Witness ==
    \E i \in DOMAIN pc :
        /\ Responded(i) /\ Received(i).status = 200
        /\ Input(i).responseFormatZip = Undefined
        /\ Received(i).body.type = "Buffer" /\ Len(Received(i).body.bytes) > 0
        /\ pc[i] = "returned"

(* C5: once the POST is issued, its form holds each of the eight flag      *)
(* fields exactly once, "true" when the input flag is true and "false"     *)
(* otherwise, whatever the other inputs are.                               *)
C5_FlagFields ==
    \A i \in DOMAIN pc :
        Started(i) =>
            \A n \in FlagNames :
                Named(Sent(i).body, FlagFieldName[n]) =
                    << [name |-> FlagFieldName[n],
                        value |-> IF Input(i)[n] = Some(TRUE) THEN "true" ELSE "false"] >>

C5_Witness ==
    \E i \in DOMAIN pc :
        /\ Started(i)
        /\ Input(i).returnImages = Some(TRUE)
        /\ Input(i).formulaEnable = Some(FALSE)
        /\ Input(i).responseFormatZip = Undefined

(* C6: each of the six conditional fields is in the form iff its input is  *)
(* truthy (a non-empty string, a non-zero number) and then carries the     *)
(* input's value, the page numbers in decimal; startPageId = 0 gives the   *)
(* same form as startPageId unset.                                         *)
C6_ConditionalFields ==
    \A i \in DOMAIN pc :
        Started(i) =>
            /\ \A n \in StringNames :
                   Named(Sent(i).body, StringFieldName[n]) =
                       IF Input(i)[n] \in {Undefined, Some("")} THEN <<>>
                       ELSE << [name |-> StringFieldName[n], value |-> Input(i)[n][1]] >>
            /\ \A n \in NumberNames :
                   Named(Sent(i).body, NumberFieldName[n]) =
                       IF Input(i)[n] \in {Undefined, Some(0)} THEN <<>>
                       ELSE << [name |-> NumberFieldName[n],
                                value |-> Decimal[Input(i)[n][1]]] >>
            /\ Input(i).startPageId = Some(0) =>
                   Sent(i).body =
                       BuildForm([Input(i) EXCEPT !.startPageId = Undefined],
                                 MimeType(Input(i).file))

C6_Witness ==
    \E i \in DOMAIN pc :
        /\ Started(i)
        /\ Input(i).startPageId = Some(0)
        /\ Input(i).endPageId = Some(99999)

(* C7: every invocation issues exactly one request, a POST to apiServerUrl *)
(* followed verbatim by "/file_parse", carrying the complete form; it is   *)
(* issued before any outcome and no other request follows, however the     *)
(* invocation ends.                                                        *)
C7_OneRequest ==
    \A i \in DOMAIN pc :
        /\ ~Started(i) => (requests[i] = <<>> /\ outcome[i] = Undefined)
        /\ Started(i) =>
              /\ Len(requests[i]) = 1
              /\ Sent(i).url = Input(i).apiServerUrl \o "/file_parse"
              /\ Input(i).apiServerUrl = "http://h:8000/" =>
                     Sent(i).url = "http://h:8000//file_parse"
              /\ Sent(i).method = "POST"
              /\ Sent(i).contentType = "multipart/form-data"
              /\ Sent(i).body = Locals(i).form
              /\ Len(Named(Sent(i).body, "response_format_zip")) = 1

C7_Witness ==
    \E i \in DOMAIN pc :
        /\ pc[i] = "threw"
        /\ ~Responded(i)
        /\ Len(requests[i]) = 1

(* C8: the form holds exactly one 'files' part, with the input file's      *)
(* bytes and filename and the MIME type of file.extension when the lookup  *)
(* knows it, "application/octet-stream" when the extension is missing,     *)
(* empty or unknown.                                                       *)
C8_FilesPart ==
    \A i \in DOMAIN pc :
        Started(i) =>
            LET ext == Input(i).file.extension
                known == ext # Undefined /\ ext[1] # "" /\ MimeLookup(ext[1]) # Undefined
            IN  /\ Named(Sent(i).body, "files") =
                       << [name |-> "files", filename |-> Input(i).file.filename,
                           type |-> IF known THEN MimeLookup(ext[1])[1]
                                    ELSE "application/octet-stream",
                           bytes |-> Input(i).file.data] >>
                /\ ext \in {Some("pdf"), Some("PDF")} =>
                       Sent(i).body[1].type = "application/pdf"
                /\ ext \in {Undefined, Some(""), Some("xyz")} =>
                       Sent(i).body[1].type = "application/octet-stream"

C8_Witness ==
    \E i \in DOMAIN pc :
        /\ Started(i)
        /\ Input(i).file.extension = Some("pdf")
        /\ Input(i).file.data # <<>>
        /\ Sent(i).body[1].type = "application/pdf"

(* C9: an optional input left unset falls back to its declared default:    *)
(* the request is the one sent when the input is given that default.       *)
C9_DefaultsApply ==
    \A i \in DOMAIN pc :
        Started(i) =>
            \A n \in DefaultedNames :
                Input(i)[n] = Undefined =>
                    Sent(i) =
                        Request(Input(i).apiServerUrl,
                                BuildForm([Input(i) EXCEPT ![n] = Some(DeclaredDefault(n))],
                                          MimeType(Input(i).file)))

(* An invocation run alone: its request and its outcome as functions of    *)
(* its own inputs and its own response.                                    *)
AloneRequest(p) == Request(p.apiServerUrl, BuildForm(p, MimeType(p.file)))

AloneOutcome(p, r) ==
    IF r.status >= 300 THEN Throw(UpstreamStatusMessage(r))
    ELSE IF p.responseFormatZip = Some(TRUE)
         THEN IF r.body.type \in {"Buffer", "Uint8Array"}
              THEN Return(ZipResult(p.file, r.body))
              ELSE Throw(FormatMismatchMessage)
         ELSE Return(r.body)

IndependentState ==
    \A i \in DOMAIN pc :
        Started(i) =>
            /\ requests[i] = <<AloneRequest(Input(i))>>
            /\ (outcome[i] # Undefined /\ Responded(i)) =>
                   outcome[i] = Some(AloneOutcome(Input(i), Received(i)))
            /\ (outcome[i] # Undefined /\ ~Responded(i)) =>
                   \E e \in TransportErrors : outcome[i] = Some(Throw(e))
            /\ (pc[i] = "awaitBody") => AloneOutcome(Input(i), Received(i)).kind = "return"

InputsKept == \A i \in DOMAIN pc : Started(i) => props'[i] = props[i]

(* C10: in every state of every interleaving each invocation's request and  *)
(* outcome are its own (IndependentState), and no step changes the inputs   *)
(* of a started invocation (InputsKept).                                   *)
C10_Independent == []IndependentState /\ [][InputsKept]_vars

C10_Witness ==
    /\ pc[1] = "returned" /\ pc[2] = "awaitResponse"
    /\ Input(1).responseFormatZip = Undefined
    /\ Input(2).responseFormatZip = Some(TRUE)
    /\ Input(1).file # Input(2).file

====
